---- MODULE Spec2Model ----
(***************************************************************************)
(* Model of scripts/gen_xlsx.py: a script that builds a list of synthetic  *)
(* server records in a loop, assembles them into a pandas DataFrame,       *)
(* writes the frame to servers_10000.xlsx and prints a completion line.    *)
(*                                                                         *)
(* Representation.  A Python str that the script builds or draws is a      *)
(* sequence of one-character strings, so that concatenation, length and    *)
(* the characters themselves are what the code makes them.  Dictionary     *)
(* keys and the completion line are only ever compared for equality and    *)
(* are kept as atoms.  A Python value carries its type: PyStr / PyInt.     *)
(* A dict is the sequence of its items in insertion order.                 *)
(*                                                                         *)
(* The random module is an input: every call consumes one raw number of    *)
(* the stream and reduces it below the size of the population it draws     *)
(* from.  The streams the model enumerates are Stream(d), d \in 0..MaxDraw.*)
(***************************************************************************)
EXTENDS Integers, Sequences, FiniteSets, TLC

(* ------------------------------ bounds --------------------------------- *)

\* Runs with count in 0..MaxCount are explored with every stream at every
\* iteration.
MaxCount == 3

\* One longer run, past the first change of the third ipv4 octet; its
\* iterations cycle through the streams instead of branching on them.
LongCount == 258

\* Streams of the random source are numbered 0..MaxDraw.
MaxDraw == 3

\* The address function is applied to every index in 0..MaxIndex.
MaxIndex == 65540

\* Runs of the minimal-field variant have count in 0..MaxMinimalCount.
MaxMinimalCount == 3

(* ------------------------- program constants --------------------------- *)

\* range(10000)
ScriptCount == 10000

\* random_string(prefix, length=6)
DefaultLength == 6

\* i // 256, i % 256
OctetBase == 256

(* ------------------------------ strings -------------------------------- *)

\* string.ascii_uppercase
ascii_uppercase ==
    <<"A","B","C","D","E","F","G","H","I","J","K","L","M",
      "N","O","P","Q","R","S","T","U","V","W","X","Y","Z">>

\* string.ascii_lowercase (not used by the script)
ascii_lowercase ==
    <<"a","b","c","d","e","f","g","h","i","j","k","l","m",
      "n","o","p","q","r","s","t","u","v","w","x","y","z">>

\* string.digits
digits == <<"0","1","2","3","4","5","6","7","8","9">>

PyStr(s) == [type |-> "str", val |-> s]

PyInt(n) == [type |-> "int", val |-> n]

\* str(n) for a non-negative int, as an f-string field {n} formats it
RECURSIVE IntToStr(_)
IntToStr(n) ==
    IF n < 10 THEN <<digits[n + 1]>>
    ELSE IntToStr(n \div 10) \o <<digits[(n % 10) + 1]>>

(* --------------------------- random source ----------------------------- *)

\* The p-th raw number of stream d.  With the multiplier 25 the streams 0..3
\* draw every one of the 36 alphabet characters at some position 0..11 and
\* every element of each 2- or 4-element population at positions 12..17.
Stream(d, p) == 25 * d + p

\* random.choice(seq): the element at a drawn index below len(seq)
choice(seq, raw) == seq[(raw % Len(seq)) + 1]

\* random.choices(population, k=k): k independent draws, stream positions
\* from .. from+k-1
choices(population, k, d, from) ==
    [n \in 1..k |-> choice(population, Stream(d, from + n - 1))]

\* faulty variant: the alphabet is ascii_lowercase + digits
random_string_lowercase(prefix, length, d, from) ==
    prefix \o choices(ascii_lowercase \o digits, length, d, from)

\* def random_string(prefix, length=6)
random_string(prefix, length, d, from) ==
    prefix \o choices(ascii_uppercase \o digits, length, d, from)

(* ------------------------------ a record ------------------------------- *)

StatusChoices == << <<"O","N">>, <<"O","F","F">> >>

LocationChoices ==
    << <<"U","S","-","E","a","s","t">>,
       <<"U","S","-","W","e","s","t">>,
       <<"E","U","-","C","e","n","t","r","a","l">>,
       <<"A","s","i","a","-","P","a","c","i","f","i","c">> >>

OsChoices ==
    << <<"U","b","u","n","t","u"," ","2","0",".","0","4">>,
       <<"C","e","n","t","O","S"," ","7">>,
       <<"D","e","b","i","a","n"," ","1","1">>,
       <<"W","i","n","d","o","w","s"," ","S","e","r","v","e","r"," ","2","0","1","9">> >>

CpuChoices == <<2, 4, 8, 16>>

RamChoices == <<4, 8, 16, 32>>

DiskChoices == <<100, 250, 500, 1000>>

\* faulty variant: the third octet taken modulo instead of by floor division
Ipv4_mod(i) ==
    <<"1","0",".","0",".">> \o IntToStr(i % OctetBase) \o <<".">>
        \o IntToStr(i % OctetBase)

\* f"10.0.{i // 256}.{i % 256}"
Ipv4(i) ==
    <<"1","0",".","0",".">> \o IntToStr(i \div OctetBase) \o <<".">>
        \o IntToStr(i % OctetBase)

\* faulty variant: the sequence number is the 0-based index
Description_zero_based(i) ==
    <<"G","e","n","e","r","a","t","e","d"," ","s","e","r","v","e","r"," ">>
        \o IntToStr(i)

\* f"Generated server {i + 1}"
Description(i) ==
    <<"G","e","n","e","r","a","t","e","d"," ","s","e","r","v","e","r"," ">>
        \o IntToStr(i + 1)

Item(k, v) == [key |-> k, val |-> v]

\* faulty variant: cpu drawn from the disk sizes
ServerRecord_cpu_from_disk(i, d) ==
    << Item("server_id", PyStr(random_string(<<"S","R","V">>, DefaultLength, d, 0))),
       Item("server_name",
            PyStr(random_string(<<"S","e","r","v","e","r">>, DefaultLength, d, 6))),
       Item("status", PyStr(choice(StatusChoices, Stream(d, 12)))),
       Item("ipv4", PyStr(Ipv4(i))),
       Item("description", PyStr(Description(i))),
       Item("location", PyStr(choice(LocationChoices, Stream(d, 13)))),
       Item("os", PyStr(choice(OsChoices, Stream(d, 14)))),
       Item("cpu", PyInt(choice(DiskChoices, Stream(d, 15)))),
       Item("ram", PyInt(choice(RamChoices, Stream(d, 16)))),
       Item("disk", PyInt(choice(DiskChoices, Stream(d, 17)))) >>

\* The dict literal of the loop body, items in the order written; the random
\* calls are evaluated in that order and take stream positions 0..17.
ServerRecord(i, d) ==
    << Item("server_id", PyStr(random_string(<<"S","R","V">>, DefaultLength, d, 0))),
       Item("server_name",
            PyStr(random_string(<<"S","e","r","v","e","r">>, DefaultLength, d, 6))),
       Item("status", PyStr(choice(StatusChoices, Stream(d, 12)))),
       Item("ipv4", PyStr(Ipv4(i))),
       Item("description", PyStr(Description(i))),
       Item("location", PyStr(choice(LocationChoices, Stream(d, 13)))),
       Item("os", PyStr(choice(OsChoices, Stream(d, 14)))),
       Item("cpu", PyInt(choice(CpuChoices, Stream(d, 15)))),
       Item("ram", PyInt(choice(RamChoices, Stream(d, 16)))),
       Item("disk", PyInt(choice(DiskChoices, Stream(d, 17)))) >>

\* dict lookup: the value of the first item with this key
Get(rec, k) ==
    LET n == CHOOSE n \in 1..Len(rec) :
                 rec[n].key = k /\ \A m \in 1..(n - 1) : rec[m].key # k
    IN  rec[n].val

Keys(rec) == [n \in 1..Len(rec) |-> rec[n].key]

HasKey(rec, k) == \E n \in 1..Len(rec) : rec[n].key = k

(* ------------------------ pandas: frame and file ----------------------- *)

\* The missing value pandas stores where a record has no such key.
NaN == [type |-> "nan", val |-> 0]

\* the first record that has key k, and k's place among that record's keys
FirstSeen(recs, k) ==
    LET r == CHOOSE r \in 1..Len(recs) :
                 HasKey(recs[r], k) /\ \A q \in 1..(r - 1) : ~HasKey(recs[q], k)
        n == CHOOSE n \in 1..Len(recs[r]) : recs[r][n].key = k
    IN  <<r, n>>

\* the column index of a list of dicts: every key once, in the order first
\* encountered when the records are read in order
ColumnsFrom(recs) ==
    LET all  == UNION {{recs[r][n].key : n \in 1..Len(recs[r])} : r \in 1..Len(recs)}
        seen == [k \in all |-> FirstSeen(recs, k)]
        Before(j, k) == \/ seen[j][1] < seen[k][1]
                        \/ seen[j][1] = seen[k][1] /\ seen[j][2] < seen[k][2]
    IN  [p \in 1..Cardinality(all) |->
            CHOOSE k \in all : Cardinality({j \in all : Before(j, k)}) = p - 1]

\* pd.DataFrame(servers)
DataFrame(recs) ==
    LET cols == ColumnsFrom(recs)
    IN  [columns |-> cols,
         rows |-> [r \in 1..Len(recs) |->
                      [c \in 1..Len(cols) |->
                          IF HasKey(recs[r], cols[c])
                          THEN Get(recs[r], cols[c]) ELSE NaN]]]

\* a worksheet cell: a str is written as a string cell, an int as a number
\* cell, a missing value as an empty cell
Cell(v) ==
    CASE v.type = "str" -> [t |-> "s", v |-> v.val]
      [] v.type = "int" -> [t |-> "n", v |-> v.val]
      [] OTHER          -> [t |-> "empty", v |-> 0]

\* The sheet df.to_excel(path, index=False) writes: the header cells, then one
\* row of cells per frame row.  A row is stored only if it has a cell, so a
\* frame without columns leaves the sheet empty.
Sheet(frame) ==
    LET header == [c \in 1..Len(frame.columns) |-> [t |-> "s", v |-> frame.columns[c]]]
        body   == [r \in 1..Len(frame.rows) |->
                      [c \in 1..Len(frame.columns) |-> Cell(frame.rows[r][c])]]
    IN  SelectSeq(<<header>> \o body, LAMBDA row : row # <<>>)

NoFile == [exists |-> FALSE, sheet |-> <<>>]

NoFrame == [columns |-> <<>>, rows |-> <<>>]

\* what can go wrong in to_excel: the path is not writable, or the engine
\* that writes .xlsx is not installed
WriteErrors == {"PermissionError", "ModuleNotFoundError"}

\* print("... servers_10000.xlsx") (the line is Vietnamese for
\* "created file servers_10000.xlsx")
CompletionLine == "Da tao file servers_10000.xlsx"

(* ------------------------------- state --------------------------------- *)

VARIABLES
    count,    \* the argument of range(): 10000 in the script
    i,        \* the index range() yields next
    servers,  \* the list servers
    pc,       \* where the script is: loop, assemble, write, print, done, aborted
    df,       \* the DataFrame, NoFrame before line 24
    file,     \* servers_10000.xlsx on disk
    stdout,   \* lines printed
    exc,      \* the uncaught exception that ended the run, "" if none
    args,     \* the indices the address function is applied to
    addrs     \* its results, <<>> before it is applied

vars == <<count, i, servers, pc, df, file, stdout, exc, args, addrs>>

Counts == (0..MaxCount) \cup {LongCount}

\* The streams an iteration may consume: all of them in a short run, the
\* next in turn in the long run.
DrawsAt(c, n) ==
    IF c <= MaxCount THEN 0..MaxDraw ELSE {n % (MaxDraw + 1)}

Init ==
    /\ count \in Counts
    /\ i = 0
    /\ servers = <<>>
    /\ pc = "loop"
    /\ df = NoFrame
    /\ file = NoFile
    /\ stdout = <<>>
    /\ exc = ""
    /\ args = <<>>
    /\ addrs = <<>>

\* faulty variant: the body rebinds the list instead of appending to it
LoopBody_rebinds ==
    /\ pc = "loop"
    /\ i < count
    /\ \E d \in DrawsAt(count, i) :
           servers' = <<ServerRecord(i, d)>>
    /\ i' = i + 1
    /\ UNCHANGED <<count, pc, df, file, stdout, exc, args, addrs>>

\* one iteration: servers.append({...})
LoopBody ==
    /\ pc = "loop"
    /\ i < count
    /\ \E d \in DrawsAt(count, i) :
           servers' = Append(servers, ServerRecord(i, d))
    /\ i' = i + 1
    /\ UNCHANGED <<count, pc, df, file, stdout, exc, args, addrs>>

\* range(count) is exhausted
LoopExit ==
    /\ pc = "loop"
    /\ i >= count
    /\ pc' = "assemble"
    /\ UNCHANGED <<count, i, servers, df, file, stdout, exc, args, addrs>>

\* df = pd.DataFrame(servers)
Assemble ==
    /\ pc = "assemble"
    /\ df' = DataFrame(servers)
    /\ pc' = "write"
    /\ UNCHANGED <<count, i, servers, file, stdout, exc, args, addrs>>

\* df.to_excel("servers_10000.xlsx", index=False) returns
WriteOk ==
    /\ pc = "write"
    /\ file' = [exists |-> TRUE, sheet |-> Sheet(df)]
    /\ pc' = "print"
    /\ UNCHANGED <<count, i, servers, df, stdout, exc, args, addrs>>

\* faulty variant: the failure is caught and the script carries on to its last line
WriteFails_swallowed ==
    /\ pc = "write"
    /\ \E e \in WriteErrors : exc' = e
    /\ pc' = "print"
    /\ UNCHANGED <<count, i, servers, df, file, stdout, args, addrs>>

\* df.to_excel(...) raises; nothing catches it
WriteFails ==
    /\ pc = "write"
    /\ \E e \in WriteErrors : exc' = e
    /\ pc' = "aborted"
    /\ UNCHANGED <<count, i, servers, df, file, stdout, args, addrs>>

\* print(...)
PrintDone ==
    /\ pc = "print"
    /\ stdout' = Append(stdout, CompletionLine)
    /\ pc' = "done"
    /\ UNCHANGED <<count, i, servers, df, file, exc, args, addrs>>

Next ==
    \/ LoopBody
    \/ LoopExit
    \/ Assemble
    \/ WriteOk
    \/ WriteFails
    \/ PrintDone

Spec == Init /\ [][Next]_vars

\* The script is one thread of control and nothing in the loop blocks: an
\* iteration that can run does run, and an exhausted range ends the loop.
FairSpec == Spec /\ WF_vars(LoopBody) /\ WF_vars(LoopExit)

(* --------------- the address function on its own ----------------------- *)

\* Second indices the address of every index is compared with: the first
\* index, the last index of the script, the last index whose octets fit, and
\* 3075, whose octets 12.3 read like those of 279 (1.23) once concatenated.
Landmarks == {0, 3075, ScriptCount - 1, OctetBase * OctetBase - 1}

InitAddr ==
    /\ count = ScriptCount
    /\ i = 0
    /\ servers = <<>>
    /\ pc = "loop"
    /\ df = NoFrame
    /\ file = NoFile
    /\ stdout = <<>>
    /\ exc = ""
    /\ args \in {<<a, b>> : a \in 0..MaxIndex, b \in Landmarks}
    /\ addrs = <<>>

\* the ipv4 expression of line 14 evaluated at each index of args
ApplyIpv4 ==
    /\ addrs = <<>>
    /\ addrs' = [n \in 1..Len(args) |-> Ipv4(args[n])]
    /\ UNCHANGED <<count, i, servers, pc, df, file, stdout, exc, args>>

SpecAddr == InitAddr /\ [][ApplyIpv4]_vars

(* ------------------- the minimal-field variant ------------------------- *)
(* The variant of the script with the minimal schema: the common fields    *)
(* plus interval_time, status fixed to ON, addresses 192.168.100.<n> for   *)
(* n = 1, 2, ... .  Its description template is taken to be the one of     *)
(* the extended variant.                                                   *)

MinimalStatusChoices == << <<"O","N">> >>

\* faulty variant: the suffix is the 0-based position
MinimalIpv4_zero_based(n) ==
    <<"1","9","2",".","1","6","8",".","1","0","0",".">> \o IntToStr(n - 1)

\* 192.168.100.<n>
MinimalIpv4(n) ==
    <<"1","9","2",".","1","6","8",".","1","0","0",".">> \o IntToStr(n)

\* a random integer in [5, 30]
randint(lo, hi, raw) == lo + (raw % (hi - lo + 1))

MinimalRecord(n, d) ==
    << Item("server_id", PyStr(random_string(<<"S","R","V">>, DefaultLength, d, 0))),
       Item("server_name",
            PyStr(random_string(<<"S","e","r","v","e","r">>, DefaultLength, d, 6))),
       Item("status", PyStr(choice(MinimalStatusChoices, Stream(d, 12)))),
       Item("ipv4", PyStr(MinimalIpv4(n))),
       Item("description", PyStr(Description(n - 1))),
       Item("location", PyStr(choice(LocationChoices, Stream(d, 13)))),
       Item("os", PyStr(choice(OsChoices, Stream(d, 14)))),
       Item("interval_time", PyInt(randint(5, 30, Stream(d, 15)))) >>

InitMinimal ==
    /\ count \in 0..MaxMinimalCount
    /\ i = 1
    /\ servers = <<>>
    /\ pc = "loop"
    /\ df = NoFrame
    /\ file = NoFile
    /\ stdout = <<>>
    /\ exc = ""
    /\ args = <<>>
    /\ addrs = <<>>

MinimalLoopBody ==
    /\ pc = "loop"
    /\ i <= count
    /\ \E d \in 0..MaxDraw :
           servers' = Append(servers, MinimalRecord(i, d))
    /\ i' = i + 1
    /\ UNCHANGED <<count, pc, df, file, stdout, exc, args, addrs>>

MinimalLoopExit ==
    /\ pc = "loop"
    /\ i > count
    /\ pc' = "assemble"
    /\ UNCHANGED <<count, i, servers, df, file, stdout, exc, args, addrs>>

NextMinimal ==
    \/ MinimalLoopBody
    \/ MinimalLoopExit
    \/ Assemble
    \/ WriteOk
    \/ WriteFails
    \/ PrintDone

SpecMinimal == InitMinimal /\ [][NextMinimal]_vars

(* ===================== properties of the script ======================== *)

(* ------------------- helpers used to state them ------------------------ *)

UpperAlnum ==
    {"A","B","C","D","E","F","G","H","I","J","K","L","M","N","O","P","Q","R",
     "S","T","U","V","W","X","Y","Z","0","1","2","3","4","5","6","7","8","9"}

DigitChars == {"0","1","2","3","4","5","6","7","8","9"}

DigitValue(c) ==
    CASE c = "0" -> 0 [] c = "1" -> 1 [] c = "2" -> 2 [] c = "3" -> 3
      [] c = "4" -> 4 [] c = "5" -> 5 [] c = "6" -> 6 [] c = "7" -> 7
      [] c = "8" -> 8 [] c = "9" -> 9

\* a decimal numeral as int() and an address parser read it: digits only, no
\* leading zero
IsDecimal(s) ==
    /\ s # <<>>
    /\ \A n \in 1..Len(s) : s[n] \in DigitChars
    /\ (Len(s) > 1 => s[1] # "0")

RECURSIVE DecimalValue(_)
DecimalValue(s) ==
    IF s = <<>> THEN 0
    ELSE 10 * DecimalValue(SubSeq(s, 1, Len(s) - 1)) + DigitValue(s[Len(s)])

\* s.split(sep) for a one-character sep
RECURSIVE Split(_, _)
Split(s, sep) ==
    IF \A n \in 1..Len(s) : s[n] # sep THEN <<s>>
    ELSE LET n == CHOOSE n \in 1..Len(s) :
                      s[n] = sep /\ \A m \in 1..(n - 1) : s[m] # sep
         IN  <<SubSeq(s, 1, n - 1)>> \o Split(SubSeq(s, n + 1, Len(s)), sep)

\* the four numbers of a dotted quad, <<>> if s is not four decimal numerals
\* joined by dots
Octets(s) ==
    LET parts == Split(s, ".")
    IN  IF Len(parts) = 4 /\ \A n \in 1..4 : IsDecimal(parts[n])
        THEN [n \in 1..4 |-> DecimalValue(parts[n])]
        ELSE <<>>

StartsWith(s, prefix) ==
    Len(s) >= Len(prefix) /\ SubSeq(s, 1, Len(prefix)) = prefix

Rest(s, prefix) == SubSeq(s, Len(prefix) + 1, Len(s))

SchemaOrder ==
    <<"server_id", "server_name", "status", "ipv4", "description",
      "location", "os", "cpu", "ram", "disk">>

Range(s) == {s[n] : n \in 1..Len(s)}

Written == file.exists

\* pd.read_excel(path): the first stored row names the columns, every other
\* row is a data row; a string cell reads as str, a number cell as int
ReadExcel(sheet) ==
    IF sheet = <<>> THEN [columns |-> <<>>, rows |-> <<>>]
    ELSE [columns |-> [c \in 1..Len(sheet[1]) |-> sheet[1][c].v],
          rows |-> [r \in 1..(Len(sheet) - 1) |->
                       [c \in 1..Len(sheet[r + 1]) |->
                           CASE sheet[r + 1][c].t = "s" -> PyStr(sheet[r + 1][c].v)
                             [] sheet[r + 1][c].t = "n" -> PyInt(sheet[r + 1][c].v)
                             [] OTHER -> NaN]]]

(* ------------------------------- C1 ------------------------------------ *)

\* C1: the loop terminates and leaves exactly count records; whenever the
\* loop is about to run the iteration with index i the list holds exactly i
\* records; a step that changes the list appends one record and keeps every
\* earlier record as it was.
C1_LoopLeavesCountRecords ==
    /\ [](/\ pc = "loop" => Len(servers) = i
          /\ pc # "loop" => Len(servers) = count)
    /\ [][servers' # servers =>
             /\ i' = i + 1
             /\ Len(servers') = Len(servers) + 1
             /\ SubSeq(servers', 1, Len(servers)) = servers]_vars
    /\ <>(pc # "loop")

C1_Witness == pc = "done" /\ count = MaxCount /\ Len(servers) = MaxCount

(* ------------------------------- C2 ------------------------------------ *)

PrefixedId(v, prefix) ==
    /\ v.type = "str"
    /\ Len(v.val) = Len(prefix) + 6
    /\ StartsWith(v.val, prefix)
    /\ \A n \in (Len(prefix) + 1)..Len(v.val) : v.val[n] \in UpperAlnum

\* C2: in every record of the list, server_id is "SRV" and server_name is
\* "Server", each followed by exactly 6 characters out of A-Z and 0-9.
C2_IdAndNameFormat ==
    \A n \in 1..Len(servers) :
        /\ PrefixedId(Get(servers[n], "server_id"), <<"S","R","V">>)
        /\ PrefixedId(Get(servers[n], "server_name"), <<"S","e","r","v","e","r">>)

\* a record whose id suffix has both a letter and a digit
C2_Witness ==
    \E n \in 1..Len(servers) :
        LET id == Get(servers[n], "server_id").val
        IN  /\ \E k \in 4..Len(id) : id[k] \in DigitChars
            /\ \E k \in 4..Len(id) : id[k] \notin DigitChars

(* ------------------------------- C3 ------------------------------------ *)

\* C3: every record of the list has status, location, os, cpu, ram and disk
\* inside the declared sets.
C3_EnumeratedFields ==
    \A n \in 1..Len(servers) :
        LET r == servers[n]
        IN  /\ Get(r, "status") \in {PyStr(<<"O","N">>), PyStr(<<"O","F","F">>)}
            /\ Get(r, "location") \in
                   {PyStr(<<"U","S","-","E","a","s","t">>),
                    PyStr(<<"U","S","-","W","e","s","t">>),
                    PyStr(<<"E","U","-","C","e","n","t","r","a","l">>),
                    PyStr(<<"A","s","i","a","-","P","a","c","i","f","i","c">>)}
            /\ Get(r, "os") \in
                   {PyStr(<<"U","b","u","n","t","u"," ","2","0",".","0","4">>),
                    PyStr(<<"C","e","n","t","O","S"," ","7">>),
                    PyStr(<<"D","e","b","i","a","n"," ","1","1">>),
                    PyStr(<<"W","i","n","d","o","w","s"," ","S","e","r","v","e","r",
                            " ","2","0","1","9">>)}
            /\ Get(r, "cpu") \in {PyInt(2), PyInt(4), PyInt(8), PyInt(16)}
            /\ Get(r, "ram") \in {PyInt(4), PyInt(8), PyInt(16), PyInt(32)}
            /\ Get(r, "disk") \in {PyInt(100), PyInt(250), PyInt(500), PyInt(1000)}

\* a list in which both statuses and all four cpu sizes occur
C3_Witness ==
    /\ {Get(servers[n], "status").val : n \in 1..Len(servers)}
           = {<<"O","N">>, <<"O","F","F">>}
    /\ {Get(servers[n], "cpu").val : n \in 1..Len(servers)} = {2, 4, 8, 16}

(* ------------------------------- C4 ------------------------------------ *)

\* C4: the record at position k (from 0) has ipv4 10.0.<k div 256>.<k mod 256>
\* and description "Generated server <k+1>", whatever was drawn for it.
C4_IndexDeterminesAddressAndDescription ==
    \A n \in 1..Len(servers) :
        LET k    == n - 1
            ip   == Get(servers[n], "ipv4")
            desc == Get(servers[n], "description")
            text == <<"G","e","n","e","r","a","t","e","d"," ",
                      "s","e","r","v","e","r"," ">>
        IN  /\ ip.type = "str"
            /\ Octets(ip.val) = <<10, 0, k \div 256, k % 256>>
            /\ desc.type = "str"
            /\ StartsWith(desc.val, text)
            /\ IsDecimal(Rest(desc.val, text))
            /\ DecimalValue(Rest(desc.val, text)) = k + 1

\* a list that reaches past index 256, where the third octet changes
C4_Witness ==
    /\ Len(servers) > 257
    /\ Octets(Get(servers[258], "ipv4").val) = <<10, 0, 1, 1>>

(* ------------------------------- C5 ------------------------------------ *)

RowsMatch(table) ==
    /\ Len(table.rows) = Len(servers)
    /\ \A r \in 1..Len(table.rows) :
           /\ Len(table.rows[r]) = Len(table.columns)
           /\ \A c \in 1..Len(table.columns) :
                  /\ table.columns[c] \in Range(Keys(servers[r]))
                  /\ table.rows[r][c] = Get(servers[r], table.columns[c])

\* C5: once the file is written, reading it back gives count data rows,
\* the schema's column set, and in row k the field values of record k.
C5_RoundTrip ==
    Written =>
        LET table == ReadExcel(file.sheet)
        IN  /\ Len(table.rows) = count
            /\ Range(table.columns) = Range(SchemaOrder)
            /\ RowsMatch(table)

\* what does hold: the round trip for every run that generated a record
C5_RoundTripOfNonEmptyRun == count > 0 => C5_RoundTrip

(* ------------------------------- C6 ------------------------------------ *)

\* C6: with count = 0 the written file has the header row of the schema's
\* field names and no data row.
C6_EmptyRunWritesHeaderOnly ==
    (count = 0 /\ Written) =>
        /\ Len(file.sheet) = 1
        /\ [c \in 1..Len(file.sheet[1]) |-> file.sheet[1][c].v] = SchemaOrder

(* ------------------------------- C7 ------------------------------------ *)

\* C7: the completion line is printed at most once, only after the write
\* succeeded, and the write only after all count records exist; after a
\* failed write nothing more happens: no line, no retry, no recovery.
C7_PrintOnlyAfterSuccessfulWrite ==
    /\ [](/\ Len(stdout) <= 1
          /\ stdout # <<>> => (Written /\ exc = "")
          /\ Written => (Len(servers) = count /\ Len(df.rows) = count)
          /\ exc # "" => (pc = "aborted" /\ stdout = <<>>))
    /\ [][/\ exc = ""
          /\ stdout' # stdout => (stdout = <<>> /\ Written)
          /\ file' # file => (pc = "write" /\ Len(servers) = count)]_vars

C7_Witness == pc = "aborted" /\ exc = "PermissionError" /\ count = MaxCount

(* ------------------------------- C8 ------------------------------------ *)

\* C8: every record carries the schema's keys in schema order, and the
\* frame's columns and the file's header row are that same sequence,
\* whatever was drawn and however many records there are.
C8_HeaderIsSchemaOrder ==
    /\ \A n \in 1..Len(servers) : Keys(servers[n]) = SchemaOrder
    /\ pc \in {"write", "print", "done", "aborted"} => df.columns = SchemaOrder
    /\ Written =>
           /\ file.sheet # <<>>
           /\ [c \in 1..Len(file.sheet[1]) |-> file.sheet[1][c].v] = SchemaOrder

\* what does hold: the same for every run that generated a record
C8_HeaderOfNonEmptyRun == count > 0 => C8_HeaderIsSchemaOrder
(* ------------------------------- C9 ------------------------------------ *)

\* C9: a finished run of the minimal variant with count = 3 holds the
\* addresses 192.168.100.1, 192.168.100.2, 192.168.100.3, in that order.
C9_MinimalRunOfThree ==
    (count = 3 /\ pc # "loop") =>
        [n \in 1..Len(servers) |-> Get(servers[n], "ipv4").val] =
            << <<"1","9","2",".","1","6","8",".","1","0","0",".","1">>,
               <<"1","9","2",".","1","6","8",".","1","0","0",".","2">>,
               <<"1","9","2",".","1","6","8",".","1","0","0",".","3">> >>

C9_Witness == count = 3 /\ pc = "done" /\ Len(servers) = 3

(* ------------------------------- C10 ----------------------------------- *)

\* C10: for an index below 65536 the address is a dotted quad 10.0.h.l with
\* h = index div 256 and l = index mod 256, both in 0..255, and h <= 39 for
\* the script's 10000 indices; two different indices below 65536 never get
\* the same address (the index can be read back from the address); from
\* index 65536 on the third octet is above 255.
C10_AddressesWellFormedAndDistinct ==
    addrs # <<>> =>
        LET a == args[1]
            b == args[2]
            o == Octets(addrs[1])
        IN  /\ Len(o) = 4
            /\ o[3] * 256 + o[4] = a
            /\ a < 65536 =>
                   /\ o = <<10, 0, a \div 256, a % 256>>
                   /\ \A n \in 1..4 : o[n] \in 0..255
            /\ a < 10000 => o[3] <= 39
            /\ (a # b /\ a < 65536 /\ b < 65536) => addrs[1] # addrs[2]
            /\ a >= 65536 => o[3] > 255

\* the first index whose address is no longer well formed, next to the last
\* one whose address is
C10_Witness ==
    /\ args = <<65536, 65535>>
    /\ addrs = << <<"1","0",".","0",".","2","5","6",".","0">>,
                  <<"1","0",".","0",".","2","5","5",".","2","5","5">> >>

====
